---- MODULE Spec2Model ----
(***************************************************************************)
(* Model of util/diagnostic.py: SchemaAttribute and the domain catalog,    *)
(* the CSV sniffer, the schema validator, the inference of a schema from   *)
(* a chunk, the chunk aggregator, the report tables and the diagnose() run.*)
(*                                                                         *)
(* Encodings:                                                              *)
(*   - a CSV cell is a string; the empty string is the empty cell, which   *)
(*     pandas reads as NaN;                                                *)
(*   - Python's None is NoneV, any other optional value x is Some(x);      *)
(*   - a pandas Series is a sequence of entries [k |-> label, v |-> value],*)
(*     in the order of its index; the float NaN is the number NaN;         *)
(*   - an exception is the string naming its kind.                         *)
(***************************************************************************)
EXTENDS Integers, Sequences, FiniteSets, TLC

(***************************************************************************)
(* Bounds of the model.                                                    *)
(***************************************************************************)
\* longest schema given to the validator
MaxAttrs == 5
\* widest first row given to the sniffer and to the inference
MaxCols == 4
\* most data rows of one file
MaxRows == 3
\* largest chunk size (the program's CHUNKSIZE, scaled down)
MaxChunk == 3
\* longest name given to the SchemaAttribute constructor
MaxName == 3

(***************************************************************************)
(* Generic helpers.                                                        *)
(***************************************************************************)
NoneV == [isNone |-> TRUE, val |-> <<>>]
Some(x) == [isNone |-> FALSE, val |-> x]

Range(s) == {s[i] : i \in 1..Len(s)}

\* all sequences over S of length lo..hi
SeqsOf(S, lo, hi) == UNION {[1..n -> S] : n \in lo..hi}

\* Python's `x in list`
InSeq(x, s) == \E i \in 1..Len(s) : s[i] = x

Min2(x, y) == IF x < y THEN x ELSE y

\* index of the first element of s equal to x (0 when absent)
IndexOf(x, s) ==
  IF InSeq(x, s) THEN CHOOSE i \in 1..Len(s) : s[i] = x /\ \A j \in 1..(i-1) : s[j] # x
  ELSE 0

(***************************************************************************)
(* SchemaAttribute and the domain catalog.                                 *)
(***************************************************************************)
TypeTags == {"string", "integer", "float", "timestamp"}

\* SchemaAttribute.is_valid_type
is_valid_type(typename) == typename \in {"string", "integer", "float", "timestamp"}

Attr(name, type) == [AttributeName |-> name, AttributeType |-> type]

\* the characters of the classes [a-zA-Z] and [0-9] of the name pattern
Letters ==
  {"a", "b", "c", "d", "e", "f", "g", "h", "i", "j", "k", "l", "m",
   "n", "o", "p", "q", "r", "s", "t", "u", "v", "w", "x", "y", "z",
   "A", "B", "C", "D", "E", "F", "G", "H", "I", "J", "K", "L", "M",
   "N", "O", "P", "Q", "R", "S", "T", "U", "V", "W", "X", "Y", "Z"}
Digits == {"0", "1", "2", "3", "4", "5", "6", "7", "8", "9"}

\* re.match(r"[a-zA-Z][a-zA-Z0-9_]*", name) on a name given as the sequence
\* of its characters: the end of the match, which starts at the first
\* character and takes the longest run of word characters after a letter;
\* -1 when there is no match (None)
MatchEnd(name) ==
  IF name = <<>> \/ name[1] \notin Letters THEN -1
  ELSE CHOOSE e \in 1..Len(name) :
         /\ \A i \in 2..e : name[i] \in Letters \cup Digits \cup {"_"}
         /\ (e < Len(name) => name[e + 1] \notin Letters \cup Digits \cup {"_"})

\* SchemaAttribute.is_valid_name: bool(match object)
is_valid_name(name) == MatchEnd(name) # -1

\* SchemaAttribute(AttributeName, AttributeType): the object, or the
\* ValueError of the first check that fails
SchemaAttribute(AttributeName, AttributeType) ==
  IF ~is_valid_name(AttributeName)
  THEN [err |-> "InvalidAttributeName", attr |-> NoneV]
  ELSE IF ~is_valid_type(AttributeType)
  THEN [err |-> "InvalidAttributeType", attr |-> NoneV]
  ELSE [err |-> "ok", attr |-> Some(Attr(AttributeName, AttributeType))]

\* one entry of a required_fields / optional_fields dict: the key and the
\* SchemaAttribute stored under it (dicts keep insertion order)
Field(key, name, type) == [key |-> key, attr |-> Attr(name, type)]

Domain(target, required, optional) ==
  [target_field |-> target, required_fields |-> required, optional_fields |-> optional]

DOMAINS ==
  ("RETAIL" :> Domain("demand",
      << Field("item_id", "item_id", "string"),
         Field("timestamp", "timestamp", "timestamp"),
         Field("demand", "demand", "float") >>,
      << Field("location", "location", "string") >>))
  @@ ("CUSTOM" :> Domain("target_value",
      << Field("item_id", "item_id", "string"),
         Field("timestamp", "timestamp", "timestamp"),
         Field("target_value", "target_value", "float") >>,
      << >>))
  @@ ("INVENTORY_PLANNING" :> Domain("demand",
      << Field("item_id", "item_id", "string"),
         Field("timestamp", "timestamp", "timestamp"),
         Field("demand", "demand", "float") >>,
      << Field("location", "location", "string") >>))
  @@ ("EC2 CAPACITY" :> Domain("number_of_instances",
      << Field("instance_type", "instance_type", "string"),
         Field("timestamp", "timestamp", "timestamp"),
         Field("number_of_instances", "number_of_instances", "integer") >>,
      << Field("location", "location", "string") >>))
  @@ ("WORK_FORCE" :> Domain("workforce_demand",
      << Field("workforce_type", "workforce_type", "string"),
         Field("timestamp", "timestamp", "timestamp"),
         Field("workforce_demand", "workforce_demand", "float") >>,
      << Field("location", "location", "string") >>))
  @@ ("WEB_TRAFFIC" :> Domain("value",
      << Field("item_id", "item_id", "string"),
         Field("timestamp", "timestamp", "timestamp"),
         Field("value", "demand", "float") >>,
      << >>))
  @@ ("METRICS" :> Domain("metric_value",
      << Field("metric_name", "metric_name", "string"),
         Field("timestamp", "timestamp", "timestamp"),
         Field("metric_value", "metric_value", "float") >>,
      << >>))

DomainNames == DOMAIN DOMAINS

\* list(d.keys())
Keys(fields) == [i \in 1..Len(fields) |-> fields[i].key]

\* d[fname].AttributeType
TypeOfKey(fields, fname) == fields[IndexOf(fname, Keys(fields))].attr.AttributeType

(***************************************************************************)
(* sniff_csv_file: the first row of the file decides header and ncols.     *)
(***************************************************************************)
sniff_csv_file(row1) ==
  LET ncols == Len(row1)
  IN IF ~(\A i \in 1..Len(row1) : is_valid_type(row1[i]))
     THEN [header |-> NoneV, ncols |-> ncols]
     ELSE [header |-> Some(row1), ncols |-> ncols]

(***************************************************************************)
(* validate_tts_schema_on_domain.                                          *)
(***************************************************************************)
\* [f for f in tts_schema["Attributes"] if f["AttributeName"] == fname]
MatchingFields(attrs, fname) == SelectSeq(attrs, LAMBDA f : f.AttributeName = fname)

\* a validator that looks for absent required fields before it compares types
CheckRequired_MissingFirst(attrs, required, i) ==
  IF \E j \in i..Len(required) : Len(MatchingFields(attrs, required[j].key)) < 1
  THEN "MissingRequiredField"
  ELSE IF \E j \in i..Len(required) :
            MatchingFields(attrs, required[j].key)[1].AttributeType
              # required[j].attr.AttributeType
       THEN "RequiredFieldTypeMismatch"
       ELSE "ok"

\* the loop over the required fields, from the i-th on: the first field that
\* is absent or has another type raises
RECURSIVE CheckRequired(_, _, _)
CheckRequired(attrs, required, i) ==
  IF i > Len(required) THEN "ok"
  ELSE LET fname == required[i].key
           matching_fields == MatchingFields(attrs, fname)
       IN IF Len(matching_fields) < 1 THEN "MissingRequiredField"
          ELSE IF matching_fields[1].AttributeType # required[i].attr.AttributeType
               THEN "RequiredFieldTypeMismatch"
               ELSE CheckRequired(attrs, required, i + 1)

\* a validator that takes an optional field as used whatever its type
OptionalMatches_AnyType(attrs, optional, fname) ==
  Len(MatchingFields(attrs, fname)) >= 1

\* does the optional field fname count as used: its first same-named
\* attribute exists and has the template's type
OptionalMatches(attrs, optional, fname) ==
  LET matching == MatchingFields(attrs, fname)
  IN Len(matching) >= 1 /\ matching[1].AttributeType = TypeOfKey(optional, fname)

\* optional_fields_used, in the template's order
OptionalFieldsUsed(attrs, optional) ==
  SelectSeq(Keys(optional), LAMBDA fname : OptionalMatches(attrs, optional, fname))

\* the optional fields the WARNING is printed for
OptionalWarnings(attrs, optional) ==
  SelectSeq(Keys(optional),
            LAMBDA fname : Len(MatchingFields(attrs, fname)) >= 1
                           /\ ~OptionalMatches(attrs, optional, fname))

\* a validator that returns the AttributeName of the stored attributes
\* instead of the keys of required_fields
RequiredFnames_AttrNames(required) ==
  [i \in 1..Len(required) |-> required[i].attr.AttributeName]

\* required_fnames
RequiredFnames(required) == Keys(required)

\* custom_fnames: the schema names in neither list, in schema order
CustomFnames(attrs, optional_fields_used, required) ==
  SelectSeq([i \in 1..Len(attrs) |-> attrs[i].AttributeName],
            LAMBDA f : ~InSeq(f, optional_fields_used \o Keys(required)))

ValidateError(kind) ==
  [err |-> kind, required |-> <<>>, optional |-> <<>>, custom |-> <<>>, warnings |-> <<>>]

validate_tts_schema_on_domain(attrs, domain) ==
  IF domain \notin DOMAIN DOMAINS THEN ValidateError("KeyError")
  ELSE LET required == DOMAINS[domain].required_fields
           optional == DOMAINS[domain].optional_fields
           err == CheckRequired(attrs, required, 1)
       IN IF err # "ok" THEN ValidateError(err)
          ELSE LET optional_fields_used == OptionalFieldsUsed(attrs, optional)
               IN [err |-> "ok",
                   required |-> RequiredFnames(required),
                   optional |-> optional_fields_used,
                   custom |-> CustomFnames(attrs, optional_fields_used, required),
                   warnings |-> OptionalWarnings(attrs, optional)]

(***************************************************************************)
(* Cells and columns as pandas reads them.                                 *)
(***************************************************************************)
\* the empty cell, read as NaN
NaNCell == ""

\* the cells of the model in Python's string order; the empty cell (NaN)
\* is put last, where pandas sorts NaN
CellOrder ==
  << "1", "1.5", "2", "a", "b", "d1", "d2", "demand", "float", "integer",
     "item_id", "location", "string", "timestamp", "" >>

CellRank(c) == IndexOf(c, CellOrder)

IntCells == {"1", "2"}
FloatCells == {"1.5"}
DateCells == {"d1", "d2"}

\* can pandas convert the cell to the dtype type_to_numpy_type gives
Convertible(cell, type) ==
  CASE type \in {"string", "timestamp"} -> TRUE
    [] type = "integer" -> cell \in IntCells \cup {NaNCell}
    [] type = "float" -> cell \in IntCells \cup FloatCells \cup {NaNCell}
    [] OTHER -> TRUE

\* a chunk is [cols |-> column labels, rows |-> rows of cells]
Chunk(cols, rows) == [cols |-> cols, rows |-> rows]

\* tts_chunk[fname]
Column(chunk, fname) ==
  LET ix == IndexOf(fname, chunk.cols)
  IN [i \in 1..Len(chunk.rows) |-> chunk.rows[i][ix]]

\* labels are tuples of cells; the order pandas sorts an index in
RECURSIVE KeyLess(_, _)
KeyLess(k1, k2) ==
  IF k1 = <<>> \/ k2 = <<>> THEN k1 = <<>> /\ k2 # <<>>
  ELSE IF Head(k1) = Head(k2) THEN KeyLess(Tail(k1), Tail(k2))
  ELSE CellRank(Head(k1)) < CellRank(Head(k2))

(***************************************************************************)
(* pandas Series of counts.                                                *)
(***************************************************************************)
\* the float NaN among the counts
NaN == -1

Entry(k, v) == [k |-> k, v |-> v]

Labels(series) == [i \in 1..Len(series) |-> series[i].k]

\* series[label]; only used for labels of the series
ValueAt(series, label) == series[IndexOf(label, Labels(series))].v

\* the series as a mapping, whatever the order of its index
AsMap(series) == {<<series[i].k, series[i].v>> : i \in 1..Len(series)}

\* sum of two values; NaN is absorbing
AddValues(x, y) == IF x = NaN \/ y = NaN THEN NaN ELSE x + y

\* the labels of S as a sequence sorted by KeyLess
RECURSIVE SortLabels(_)
SortLabels(S) ==
  IF S = {} THEN <<>>
  ELSE LET m == CHOOSE x \in S : \A y \in S \ {x} : KeyLess(x, y)
       IN <<m>> \o SortLabels(S \ {m})

\* a + b for two Series: equal indexes add position by position; other
\* indexes are aligned on their sorted union and a label missing on one
\* side gives NaN
SeriesAdd(a, b) ==
  IF Labels(a) = Labels(b)
  THEN [i \in 1..Len(a) |-> Entry(a[i].k, AddValues(a[i].v, b[i].v))]
  ELSE LET ls == SortLabels(Range(Labels(a)) \cup Range(Labels(b)))
       IN [i \in 1..Len(ls) |->
             Entry(ls[i],
                   IF InSeq(ls[i], Labels(a)) /\ InSeq(ls[i], Labels(b))
                   THEN AddValues(ValueAt(a, ls[i]), ValueAt(b, ls[i]))
                   ELSE NaN)]

\* number of positions of s holding x
CountOf(x, s) == Cardinality({i \in 1..Len(s) : s[i] = x})

\* the distinct elements of s in first-seen order
RECURSIVE Distinct(_)
Distinct(s) ==
  IF s = <<>> THEN <<>>
  ELSE <<Head(s)>> \o Distinct(SelectSeq(Tail(s), LAMBDA x : x # Head(s)))

\* stable sort of a series by descending count
RECURSIVE SortByCountDesc(_)
SortByCountDesc(series) ==
  IF series = <<>> THEN <<>>
  ELSE LET top == CHOOSE i \in 1..Len(series) :
                    /\ \A j \in 1..Len(series) : series[j].v <= series[i].v
                    /\ \A j \in 1..(i-1) : series[j].v < series[i].v
       IN <<series[top]>>
          \o SortByCountDesc([j \in 1..(Len(series)-1) |->
                                IF j < top THEN series[j] ELSE series[j+1]])

\* column.value_counts(dropna=False): one entry per distinct value, NaN
\* included, highest count first
value_counts(column) ==
  LET vals == Distinct(column)
  IN SortByCountDesc([i \in 1..Len(vals) |-> Entry(<<vals[i]>>, CountOf(vals[i], column))])

\* tts_chunk.groupby(dimension_fields).size(): one entry per tuple of
\* dimension values, rows with a NaN dimension dropped, sorted by label
groupby_size(chunk, dimension_fields) ==
  LET tuples == [i \in 1..Len(chunk.rows) |->
                   [d \in 1..Len(dimension_fields) |->
                      chunk.rows[i][IndexOf(dimension_fields[d], chunk.cols)]]]
      kept == SelectSeq(tuples, LAMBDA t : ~InSeq(NaNCell, t))
      ls == SortLabels(Range(kept))
  IN [i \in 1..Len(ls) |-> Entry(ls[i], CountOf(ls[i], kept))]

(***************************************************************************)
(* add_pct_to_value_counts: the table displayed for a Series of counts.    *)
(***************************************************************************)
\* clip=10 of the tables of the report
TopN == 10

\* value_counts.sum(): NaN is skipped
RECURSIVE SumSkipNaN(_)
SumSkipNaN(series) ==
  IF series = <<>> THEN 0
  ELSE (IF Head(series).v = NaN THEN 0 ELSE Head(series).v) + SumSkipNaN(Tail(series))

\* "{0:.2f}%".format(records / n_entries * 100) as the number of hundredths
\* of a percent it prints, rounded half to even; NaN prints as nan%
Percentage(records, n_entries) ==
  IF records = NaN \/ n_entries = 0 THEN NaN
  ELSE LET q == (records * 10000) \div n_entries
           r == (records * 10000) % n_entries
       IN IF 2 * r > n_entries THEN q + 1
          ELSE IF 2 * r = n_entries THEN q + (q % 2)
          ELSE q

\* the first `clip` entries of the Series, each with its share of the sum
\* of the whole Series
add_pct_to_value_counts(series, clip) ==
  LET n_entries == SumSkipNaN(series)
      result == SubSeq(series, 1, Min2(clip, Len(series)))
  IN [i \in 1..Len(result) |->
        [k |-> result[i].k, Records |-> result[i].v,
         Percentage |-> Percentage(result[i].v, n_entries)]]

(***************************************************************************)
(* The tracking variables of diagnose and their update from one chunk.     *)
(***************************************************************************)
\* the tracking variables as diagnose initializes them
EmptyStats ==
  [global_tts_start |-> NoneV,
   global_tts_end |-> NoneV,
   total_records |-> 0,
   total_records_nonulls |-> 0,
   num_nulls_by_field |-> NoneV,
   unique_dimension_vals |-> <<>>,
   unique_dimension_combos |-> NoneV]

\* column.min() / column.max(): NaN is skipped
ColumnMin(column) ==
  LET S == Range(column) \ {NaNCell}
  IN IF S = {} THEN NaNCell ELSE CHOOSE x \in S : \A y \in S : CellRank(x) <= CellRank(y)

ColumnMax(column) ==
  LET S == Range(column) \ {NaNCell}
  IN IF S = {} THEN NaNCell ELSE CHOOSE x \in S : \A y \in S : CellRank(x) >= CellRank(y)

PyMin(x, y) == IF CellRank(y) < CellRank(x) THEN y ELSE x
PyMax(x, y) == IF CellRank(y) > CellRank(x) THEN y ELSE x

\* tts_chunk.isnull().any(axis=1).sum()
RowsWithNull(chunk) == Cardinality({i \in 1..Len(chunk.rows) : InSeq(NaNCell, chunk.rows[i])})

\* tts_chunk.isna().sum(): the NaN count of every column
NullsByField(chunk) ==
  [c \in 1..Len(chunk.cols) |->
     Cardinality({i \in 1..Len(chunk.rows) : chunk.rows[i][c] = NaNCell})]

\* the loop over dimension_fields: the chunk's value counts are added to
\* the entry of the dict, or stored when the field has no entry yet
UpdateDimensionVals(unique_dimension_vals, chunk, dimension_fields) ==
  [fname \in (DOMAIN unique_dimension_vals) \cup Range(dimension_fields) |->
     IF fname \notin Range(dimension_fields) THEN unique_dimension_vals[fname]
     ELSE IF fname \in DOMAIN unique_dimension_vals
          THEN SeriesAdd(unique_dimension_vals[fname], value_counts(Column(chunk, fname)))
          ELSE value_counts(Column(chunk, fname))]

\* unique_dimension_combos after the chunk
UpdateDimensionCombos(unique_dimension_combos, chunk, dimension_fields) ==
  LET chunk_dimension_combos == groupby_size(chunk, dimension_fields)
  IN IF unique_dimension_combos.isNone THEN Some(chunk_dimension_combos)
     ELSE Some(SeriesAdd(unique_dimension_combos.val, chunk_dimension_combos))

\* "Update statistics from this chunk"
UpdateStats(st, chunk, timestamp_field, dimension_fields) ==
  LET chunk_min_ts == ColumnMin(Column(chunk, timestamp_field))
      chunk_max_ts == ColumnMax(Column(chunk, timestamp_field))
      chunk_nulls_by_field == NullsByField(chunk)
  IN [global_tts_start |->
        IF st.global_tts_start.isNone THEN Some(chunk_min_ts)
        ELSE Some(PyMin(st.global_tts_start.val, chunk_min_ts)),
      global_tts_end |->
        IF st.global_tts_end.isNone THEN Some(chunk_max_ts)
        ELSE Some(PyMax(st.global_tts_end.val, chunk_max_ts)),
      total_records |-> st.total_records + Len(chunk.rows),
      total_records_nonulls |->
        st.total_records_nonulls + (Len(chunk.rows) - RowsWithNull(chunk)),
      num_nulls_by_field |->
        IF st.num_nulls_by_field.isNone THEN Some(chunk_nulls_by_field)
        ELSE Some([c \in 1..Len(chunk_nulls_by_field) |->
                     st.num_nulls_by_field.val[c] + chunk_nulls_by_field[c]]),
      unique_dimension_vals |->
        UpdateDimensionVals(st.unique_dimension_vals, chunk, dimension_fields),
      unique_dimension_combos |->
        UpdateDimensionCombos(st.unique_dimension_combos, chunk, dimension_fields)]

\* rows lo..hi of a sequence (the rows the chunker yields next)
Slice(s, lo, hi) == [i \in 1..(hi - lo + 1) |-> s[lo + i - 1]]

(***************************************************************************)
(* File names and the expansion of the path argument.                      *)
(***************************************************************************)
\* a file name is the sequence of its characters
NameACsv == <<"a", ".", "c", "s", "v">>
NameBCsvUpper == <<"b", ".", "C", "S", "V">>
NameCTxt == <<"c", ".", "t", "x", "t">>
NameDTxt == <<"d", ".", "t", "x", "t">>

\* the characters of the names in Python's (code point) order
CharOrder == <<".", "C", "S", "V", "a", "b", "c", "d", "s", "t", "v", "x">>
CharRank(ch) == IndexOf(ch, CharOrder)

\* str.lower on one character
LowerChar(ch) ==
  CASE ch = "C" -> "c"
    [] ch = "S" -> "s"
    [] ch = "V" -> "v"
    [] OTHER -> ch

\* f.lower()
Lower(name) == [i \in 1..Len(name) |-> LowerChar(name[i])]

\* name.endswith(suffix)
EndsWith(name, suffix) ==
  /\ Len(name) >= Len(suffix)
  /\ \A i \in 1..Len(suffix) : name[Len(name) - Len(suffix) + i] = suffix[i]

\* lambda f: f.lower().endswith(".csv")
IsCsvName(name) == EndsWith(Lower(name), <<".", "c", "s", "v">>)

\* string comparison of two names
RECURSIVE NameLess(_, _)
NameLess(n1, n2) ==
  IF n1 = <<>> \/ n2 = <<>> THEN n1 = <<>> /\ n2 # <<>>
  ELSE IF Head(n1) = Head(n2) THEN NameLess(Tail(n1), Tail(n2))
  ELSE CharRank(Head(n1)) < CharRank(Head(n2))

\* sorted(names)
RECURSIVE SortedNames(_)
SortedNames(S) ==
  IF S = {} THEN <<>>
  ELSE LET m == CHOOSE x \in S : \A y \in S \ {x} : NameLess(x, y)
       IN <<m>> \o SortedNames(S \ {m})

\* the files of the directory that diagnose goes on with: all files found,
\* or the CSV files when there are some and some files are not CSV
DirectoryFilenames(listing) ==
  LET tts_filenames == SortedNames(listing)
      filtered_filenames == SelectSeq(tts_filenames, IsCsvName)
      n_raw == Len(tts_filenames)
      n_filtered == Len(filtered_filenames)
  IN IF n_filtered > 0 /\ n_filtered < n_raw THEN filtered_filenames ELSE tts_filenames

(***************************************************************************)
(* Schema inference from the first chunk.                                  *)
(***************************************************************************)
\* number of leading values pd.to_datetime is tried on
DatetimeSample == 5

\* the dtype pandas gives a column it reads without a declared dtype
ColumnDtype(column) ==
  LET present == Range(column) \ {NaNCell}
  IN IF \E c \in present : c \notin IntCells \cup FloatCells THEN "object"
     ELSE IF present \cap FloatCells # {} \/ NaNCell \in Range(column) THEN "float64"
     ELSE "int64"

\* pd.to_datetime(column[0:5]) does not raise
ParsesAsDates(column) ==
  \A i \in 1..Min2(DatetimeSample, Len(column)) : column[i] \in DateCells \cup {NaNCell}

\* the schematype of a column
SchemaType(column) ==
  LET dtype == ColumnDtype(column)
  IN CASE dtype = "int64" -> "integer"
       [] dtype = "float64" -> "float"
       [] OTHER -> IF ParsesAsDates(column) THEN "timestamp" ELSE "string"

\* tts_schema["Attributes"] as the loop over the columns builds it
InferAttributes(chunk) ==
  [c \in 1..Len(chunk.cols) |-> Attr(chunk.cols[c], SchemaType(Column(chunk, chunk.cols[c])))]

\* the keys of the domain's fields declared with that type
FieldsOfType(fields, schematype) ==
  SelectSeq(Keys(fields), LAMBDA f : TypeOfKey(fields, f) = schematype)

\* an inference that gives the name to the first column, whatever its type
RenameOfType_FirstColumn(attrs, schematype, name) ==
  [attrs EXCEPT ![1].AttributeName = name]

\* the attribute list with the first attribute of that type renamed
RenameOfType(attrs, schematype, name) ==
  LET ix == CHOOSE i \in 1..Len(attrs) :
              /\ attrs[i].AttributeType = schematype
              /\ \A j \in 1..(i-1) : attrs[j].AttributeType # schematype
  IN [attrs EXCEPT ![ix].AttributeName = name]

\* an inference that takes every detected type as detected on one column
TypeCount_One(attrs, schematype) == 1

\* field_counts_by_type[schematype]
TypeCount(attrs, schematype) ==
  Cardinality({c \in 1..Len(attrs) : attrs[c].AttributeType = schematype})

\* the loop over field_counts_by_type, from the i-th detected type on:
\* the column names are inferred from the domain, type by type
RECURSIVE InferNames(_, _, _, _)
InferNames(attrs, types, dom, i) ==
  IF i > Len(types) THEN [err |-> "ok", attrs |-> attrs]
  ELSE LET schematype == types[i]
           count == TypeCount(attrs, schematype)
           matching_required_fields == FieldsOfType(DOMAINS[dom].required_fields, schematype)
           matching_optional_fields == FieldsOfType(DOMAINS[dom].optional_fields, schematype)
           n_matching_required == Len(matching_required_fields)
           n_matching_optional == Len(matching_optional_fields)
       IN IF count > 1 THEN [err |-> "AmbiguousColumnMapping", attrs |-> attrs]
          ELSE IF n_matching_required > 1
               THEN [err |-> "AmbiguousColumnMapping", attrs |-> attrs]
          ELSE IF n_matching_required = 1
               THEN InferNames(RenameOfType(attrs, schematype, matching_required_fields[1]),
                               types, dom, i + 1)
          ELSE IF n_matching_required = 0 /\ n_matching_optional = 1
               THEN InferNames(RenameOfType(attrs, schematype, matching_optional_fields[1]),
                               types, dom, i + 1)
          ELSE InferNames(attrs, types, dom, i + 1)

\* an inference that leaves the columns unnamed instead of asking for a domain
InferSchema_Unnamed(chunk, header, dom) ==
  [err |-> "ok", attrs |-> InferAttributes(chunk)]

\* the schema inferred from the first chunk: the attributes by dtype and,
\* for a file without header, their names by the domain
InferSchema(chunk, header, dom) ==
  LET attrs == InferAttributes(chunk)
      types == Distinct([c \in 1..Len(attrs) |-> attrs[c].AttributeType])
  IN IF ~header.isNone THEN [err |-> "ok", attrs |-> attrs]
     ELSE IF dom \notin DOMAIN DOMAINS THEN [err |-> "SchemaIndeterminate", attrs |-> attrs]
     ELSE InferNames(attrs, types, dom, 1)

\* timestamp_field, target_field and dimension_fields of a validated schema
FieldPartition(attrs, reqd_fields, dom) ==
  LET names == [i \in 1..Len(attrs) |-> attrs[i].AttributeName]
      ts == CHOOSE i \in 1..Len(attrs) :
              /\ InSeq(attrs[i].AttributeName, reqd_fields)
              /\ attrs[i].AttributeType = "timestamp"
              /\ \A j \in 1..(i-1) :
                   ~(InSeq(attrs[j].AttributeName, reqd_fields)
                     /\ attrs[j].AttributeType = "timestamp")
      timestamp_field == attrs[ts].AttributeName
      target_field == DOMAINS[dom].target_field
  IN [timestamp_field |-> timestamp_field,
      target_field |-> target_field,
      dimension_fields |-> SelectSeq(names, LAMBDA n : n \notin {timestamp_field, target_field})]

\* the block `if tts_schema is None` of the chunk loop: the schema inferred
\* from the chunk, validated on the domain, and the partition of its fields
ResolveSchema(chunk, header, dom) ==
  LET inferred == InferSchema(chunk, header, dom)
      v == validate_tts_schema_on_domain(inferred.attrs, dom)
  IN IF inferred.err # "ok"
     THEN [err |-> inferred.err, attrs |-> inferred.attrs, validated |-> FALSE, part |-> NoneV]
     ELSE IF v.err # "ok"
     THEN [err |-> v.err, attrs |-> inferred.attrs, validated |-> TRUE, part |-> NoneV]
     ELSE [err |-> "ok", attrs |-> inferred.attrs, validated |-> TRUE,
           part |-> Some(FieldPartition(inferred.attrs, v.required, dom))]

\* the column labels pandas gives a file read without names and header
IntegerLabels == <<"#0", "#1", "#2", "#3", "#4">>

(***************************************************************************)
(* State.                                                                  *)
(***************************************************************************)
VARIABLES
  \* sniff_csv_file called on its own: the first row and the result
  sn_row1, sn_result,
  \* validate_tts_schema_on_domain called on its own
  va_schema, va_domain, va_result,
  \* the chunk loop over one file, run on its own
  ag_rows, ag_size, ag_pos, ag_stats,
  \* the SchemaAttribute constructor called on its own
  sa_name, sa_type, sa_result,
  \* the inference of a schema from one chunk, run on its own
  in_row, in_header, in_domain, in_result,
  \* diagnose: the arguments tts_path and domain, and the chunk size
  tts_path, domain, chunksize,
  \* diagnose: the argument tts_schema, later the inferred schema
  tts_schema, is_tts_schema_explicit,
  \* diagnose: where the run is, and the exception that ended it
  pc, error,
  \* diagnose: timestamp_field, target_field, dimension_fields once bound
  partition,
  \* diagnose: the file loop
  tts_filenames, ixfile, header_columns, ncols, reader, renames,
  \* diagnose: the tracking variables
  stats,
  \* what the run has printed of its reports, one entry per report
  output,
  \* the phase of the run, in the words of the design
  phase,
  \* the rows streamed so far in the whole run, and their exact count per
  \* tuple of dimension values
  all_records, all_combos,
  \* lambda_handler: the request, the place in the handler, the last response
  \* of SageMaker held by the handler, the responses sent to CloudFormation
  \* and the APIs called so far
  event, lh_pc, response, cfn_responses, api_calls,
  \* the services as the handler meets them: the API whose call fails, the
  \* status of the domain in SageMaker and how its pending operation ends
  api_fault, sm_status, sm_fate,
  \* wait_till_delete: its arguments, its local, its outcome, the calls of
  \* the callback so far and how the last one ended
  callback, check_time, timeout, elapsed_time, wd_pc, wd_calls, wd_last

snVars == <<sn_row1, sn_result>>
vaVars == <<va_schema, va_domain, va_result>>
agVars == <<ag_rows, ag_size, ag_pos, ag_stats>>
saVars == <<sa_name, sa_type, sa_result>>
inVars == <<in_row, in_header, in_domain, in_result>>
argVars == <<tts_path, domain, chunksize>>
runVars == <<tts_schema, is_tts_schema_explicit, pc, error, partition, tts_filenames, ixfile,
             header_columns, ncols, reader, renames, stats, output, phase, all_records,
             all_combos>>
dgVars == <<argVars, runVars>>
lhVars == <<event, lh_pc, response, cfn_responses, api_calls, api_fault, sm_status, sm_fate>>
wdVars == <<callback, check_time, timeout, elapsed_time, wd_pc, wd_calls, wd_last>>
vars == <<snVars, vaVars, agVars, saVars, inVars, dgVars, lhVars, wdVars>>

\* domain=None
NoDomain == "<None>"

\* the chunker of a file: the labels of its columns, the declared types
\* when a schema was known on opening the file, the rows not yet read
Reader(cols, dtype, rows) == [cols |-> cols, dtype |-> dtype, rows |-> rows]
NoReader == Reader(<<>>, NoneV, <<>>)

DgIdle ==
  /\ tts_path = [kind |-> "none", name |-> <<>>, listing |-> {}]
  /\ domain = NoDomain /\ chunksize = 1
  /\ tts_schema = NoneV /\ is_tts_schema_explicit = FALSE
  /\ pc = "idle" /\ error = ""
  /\ partition = NoneV
  /\ tts_filenames = <<>> /\ ixfile = 0
  /\ header_columns = NoneV /\ ncols = 0 /\ reader = NoReader /\ renames = NoneV
  /\ stats = EmptyStats
  /\ output = <<>>
  /\ phase = "ResolvingInputs"
  /\ all_records = 0 /\ all_combos = <<>>

SnIdle == sn_row1 = <<>> /\ sn_result = NoneV
VaIdle == va_schema = <<>> /\ va_domain = "" /\ va_result = NoneV
AgIdle == ag_rows = <<>> /\ ag_size = 1 /\ ag_pos = 0 /\ ag_stats = EmptyStats
SaIdle == sa_name = <<>> /\ sa_type = "" /\ sa_result = NoneV
InIdle == in_row = <<>> /\ in_header = NoneV /\ in_domain = "" /\ in_result = NoneV
LhIdle ==
  /\ event = NoneV /\ lh_pc = "idle" /\ response = "" /\ cfn_responses = <<>>
  /\ api_calls = {} /\ api_fault = "none" /\ sm_status = "Absent" /\ sm_fate = "completes"
WdIdle ==
  /\ callback = NoneV /\ check_time = 0 /\ timeout = NoneV /\ elapsed_time = 0
  /\ wd_pc = "idle" /\ wd_calls = 0 /\ wd_last = ""

(***************************************************************************)
(* The sniffer on every first row.                                         *)
(***************************************************************************)
SniffCells == {"string", "timestamp", "float", "item_id", "demand", "a"}

SniffInit ==
  /\ sn_row1 \in SeqsOf(SniffCells, 1, MaxCols)
  /\ sn_result = NoneV
  /\ VaIdle /\ AgIdle /\ SaIdle /\ InIdle /\ DgIdle /\ LhIdle /\ WdIdle

Sniff ==
  /\ sn_result.isNone
  /\ sn_result' = Some(sniff_csv_file(sn_row1))
  /\ UNCHANGED <<sn_row1, vaVars, agVars, saVars, inVars, dgVars, lhVars, wdVars>>

SniffNext == Sniff

SpecSniff == SniffInit /\ [][SniffNext]_vars

(***************************************************************************)
(* The validator on every schema over the domain's own field names, each   *)
(* with the template's type or another one, and one custom field.          *)
(***************************************************************************)
WrongType(type) ==
  CASE type = "string" -> "integer"
    [] type = "integer" -> "float"
    [] type = "float" -> "integer"
    [] OTHER -> "string"

AttrPool(dom) ==
  LET fs == DOMAINS[dom].required_fields \o DOMAINS[dom].optional_fields
  IN {Attr(fs[i].key, fs[i].attr.AttributeType) : i \in 1..Len(fs)}
     \cup {Attr(fs[i].key, WrongType(fs[i].attr.AttributeType)) : i \in 1..Len(fs)}
     \cup {Attr("price", "float")}

ValidateInit ==
  /\ va_domain \in DomainNames
  /\ va_schema \in SeqsOf(AttrPool(va_domain), 0, MaxAttrs)
  /\ va_result = NoneV
  /\ SnIdle /\ AgIdle /\ SaIdle /\ InIdle /\ DgIdle /\ LhIdle /\ WdIdle

Validate ==
  /\ va_result.isNone
  /\ va_result' = Some(validate_tts_schema_on_domain(va_schema, va_domain))
  /\ UNCHANGED <<va_schema, va_domain, snVars, agVars, saVars, inVars, dgVars, lhVars, wdVars>>

ValidateNext == Validate

SpecValidate == ValidateInit /\ [][ValidateNext]_vars

(***************************************************************************)
(* The chunk loop on every file of up to MaxRows rows, in chunks of every  *)
(* size up to MaxChunk, under the schema item_id, timestamp, demand.       *)
(***************************************************************************)
AgCols == <<"item_id", "timestamp", "demand">>
AgTimestampField == "timestamp"
AgDimensionFields == <<"item_id">>

AgRowPool == {<<i, t, d>> : i \in {"a", "b", NaNCell}, t \in DateCells, d \in {"1.5", NaNCell}}

AggInit ==
  /\ ag_rows \in SeqsOf(AgRowPool, 0, MaxRows)
  /\ ag_size \in 1..MaxChunk
  /\ ag_pos = 0
  /\ ag_stats = EmptyStats
  /\ SnIdle /\ VaIdle /\ SaIdle /\ InIdle /\ DgIdle /\ LhIdle /\ WdIdle

\* one turn of `for ixchunk, tts_chunk in enumerate(tts_chunker)`
AggChunk ==
  /\ ag_pos < Len(ag_rows)
  /\ LET last == Min2(ag_pos + ag_size, Len(ag_rows))
         tts_chunk == Chunk(AgCols, Slice(ag_rows, ag_pos + 1, last))
     IN /\ ag_stats' = UpdateStats(ag_stats, tts_chunk, AgTimestampField, AgDimensionFields)
        /\ ag_pos' = last
  /\ UNCHANGED <<ag_rows, ag_size, snVars, vaVars, saVars, inVars, dgVars, lhVars, wdVars>>

AggNext == AggChunk

SpecAgg == AggInit /\ [][AggNext]_vars

(***************************************************************************)
(* The SchemaAttribute constructor on every name of up to MaxName          *)
(* characters and on the four types and two other strings.                 *)
(***************************************************************************)
NameChars == {"a", "Z", "1", "_", "-", " "}
AttrTypes == {"string", "integer", "float", "timestamp", "date", ""}

AttrInit ==
  /\ sa_name \in SeqsOf(NameChars, 0, MaxName)
  /\ sa_type \in AttrTypes
  /\ sa_result = NoneV
  /\ SnIdle /\ VaIdle /\ AgIdle /\ InIdle /\ DgIdle /\ LhIdle /\ WdIdle

Construct ==
  /\ sa_result.isNone
  /\ sa_result' = Some(SchemaAttribute(sa_name, sa_type))
  /\ UNCHANGED <<sa_name, sa_type, snVars, vaVars, agVars, inVars, dgVars, lhVars, wdVars>>

AttrNext == Construct

SpecAttr == AttrInit /\ [][AttrNext]_vars

(***************************************************************************)
(* The inference on every one-row chunk of up to MaxCols columns, read     *)
(* with or without a header, for every domain and for no domain.           *)
(***************************************************************************)
InferCells == {"a", "d1", "1", "1.5"}
InferDomains == DomainNames \cup {NoDomain}

\* a header the sniffer returns: type keywords, all different
KeywordHeader == <<"string", "timestamp", "float", "integer">>

InferInit ==
  /\ in_row \in SeqsOf(InferCells, 1, MaxCols)
  /\ in_header \in {NoneV} \cup (IF Len(in_row) <= Len(KeywordHeader)
                                 THEN {Some(SubSeq(KeywordHeader, 1, Len(in_row)))}
                                 ELSE {})
  /\ in_domain \in InferDomains
  /\ in_result = NoneV
  /\ SnIdle /\ VaIdle /\ AgIdle /\ SaIdle /\ DgIdle /\ LhIdle /\ WdIdle

\* the first chunk of a file read without schema
Infer ==
  /\ in_result.isNone
  /\ LET cols == IF in_header.isNone THEN SubSeq(IntegerLabels, 1, Len(in_row))
                 ELSE in_header.val
     IN in_result' = Some(ResolveSchema(Chunk(cols, <<in_row>>), in_header, in_domain))
  /\ UNCHANGED <<in_row, in_header, in_domain, snVars, vaVars, agVars, saVars, dgVars,
                 lhVars, wdVars>>

InferNext == Infer

SpecInfer == InferInit /\ [][InferNext]_vars

(***************************************************************************)
(* diagnose.                                                               *)
(***************************************************************************)
RetailSchema ==
  <<Attr("item_id", "string"), Attr("timestamp", "timestamp"), Attr("demand", "float")>>
\* a schema without the target field of any domain
ShortSchema == <<Attr("item_id", "string"), Attr("timestamp", "timestamp")>>

DgDomains == {NoDomain, "RETAIL", "BOGUS"}
\* schemas with a custom field whose type is no type of the API, and with
\* a custom field whose name is no name of the API
DateSchema == RetailSchema \o <<Attr("day", "date")>>
DashSchema == RetailSchema \o <<Attr("store-id", "integer")>>

DgSchemas == {NoneV, Some(RetailSchema), Some(ShortSchema), Some(DateSchema), Some(DashSchema)}
DgNames == {NameACsv, NameBCsvUpper, NameCTxt, NameDTxt}
DgPaths ==
  {[kind |-> "none", name |-> <<>>, listing |-> {}],
   [kind |-> "file", name |-> NameACsv, listing |-> {}]}
  \cup {[kind |-> "dir", name |-> <<>>, listing |-> S] : S \in SUBSET DgNames}

\* the rows a file may hold: data rows without header, a row of column
\* names or of type keywords followed by data rows, rows of two cells, or
\* rows of four cells
DataRowPool ==
  {<<"a", "d1", "1.5">>, <<"b", "d2", "1.5">>, <<"a", "d2", NaNCell>>, <<"a", "d1", "1">>}
WideRowPool == {<<"a", "d1", "1.5", "1">>}
NamesRow == <<"item_id", "timestamp", "demand">>
TypesRow == <<"string", "timestamp", "float">>
NarrowRow == <<"a", "d1">>
FileContents ==
  SeqsOf(DataRowPool, 0, MaxRows)
  \cup {<<h>> \o r : h \in {NamesRow, TypesRow}, r \in SeqsOf(DataRowPool, 1, MaxRows - 1)}
  \cup {<<NarrowRow>>}
  \cup SeqsOf(WideRowPool, 1, MaxRows)

Init ==
  /\ tts_path \in DgPaths
  /\ domain \in DgDomains
  /\ chunksize \in 1..MaxChunk
  /\ tts_schema \in DgSchemas
  /\ is_tts_schema_explicit = FALSE
  /\ pc = "start" /\ error = ""
  /\ partition = NoneV
  /\ tts_filenames = <<>> /\ ixfile = 0
  /\ header_columns = NoneV /\ ncols = 0 /\ reader = NoReader /\ renames = NoneV
  /\ stats = EmptyStats
  /\ output = <<>>
  /\ phase = "ResolvingInputs"
  /\ all_records = 0 /\ all_combos = <<>>
  /\ SnIdle /\ VaIdle /\ AgIdle /\ SaIdle /\ InIdle /\ LhIdle /\ WdIdle

\* an exception leaves diagnose
Raise(kind) ==
  /\ pc' = "failed"
  /\ error' = kind
  /\ phase' = "Failed"

\* the checks of the arguments and, when domain and schema are both given,
\* the validation of the schema and the partition of its fields
Start ==
  /\ pc = "start"
  /\ is_tts_schema_explicit' = ~tts_schema.isNone
  /\ IF domain # NoDomain /\ domain \notin DOMAIN DOMAINS
     THEN Raise("UnknownDomain") /\ UNCHANGED partition
     ELSE IF domain # NoDomain /\ ~tts_schema.isNone
     THEN LET v == validate_tts_schema_on_domain(tts_schema.val, domain)
          IN IF v.err # "ok" THEN Raise(v.err) /\ UNCHANGED partition
             ELSE /\ partition' = Some(FieldPartition(tts_schema.val, v.required, domain))
                  /\ phase' = "ResolvingSchema"
                  /\ pc' = "resolve"
                  /\ UNCHANGED error
     ELSE pc' = "resolve" /\ UNCHANGED <<error, partition, phase>>
  /\ UNCHANGED <<argVars, tts_schema, tts_filenames, ixfile, header_columns, ncols, reader, renames,
                 stats, output, all_records, all_combos, snVars, vaVars, agVars, saVars, inVars, lhVars, wdVars>>

\* the expansion of tts_path into tts_filenames
ResolveInputs ==
  /\ pc = "resolve"
  /\ IF tts_path.kind = "dir"
     THEN /\ tts_filenames' = DirectoryFilenames(tts_path.listing)
          /\ pc' = "open" /\ phase' = "ResolvingInputs" /\ UNCHANGED error
     ELSE IF tts_path.kind = "file"
     THEN /\ tts_filenames' = <<tts_path.name>>
          /\ pc' = "open" /\ phase' = "ResolvingInputs" /\ UNCHANGED error
     ELSE Raise("InvalidPath") /\ UNCHANGED tts_filenames
  /\ UNCHANGED <<argVars, tts_schema, is_tts_schema_explicit, partition, ixfile, header_columns,
                 ncols, reader, renames, stats, output, all_records, all_combos,
                 snVars, vaVars, agVars, saVars, inVars, lhVars, wdVars>>

\* a file loop that does not compare the header with the schema
HeaderMatches_Skipped(header, attrs) == TRUE

\* the header of the file agrees with the schema at every column
HeaderMatches(header, attrs) ==
  \A ixcol \in 1..Len(header) : header[ixcol] = attrs[ixcol].AttributeName

\* the top of the file loop for the next file, whose rows are `content`:
\* the file is sniffed, checked against the schema known so far, opened
\* for reading in chunks, and the tracking variables are initialized
OpenFileWith(content) ==
  IF content = <<>>
  THEN Raise("StopIteration") /\ UNCHANGED <<header_columns, ncols, reader, renames, stats>>
  ELSE LET sniffed == sniff_csv_file(content[1])
           header == sniffed.header
       IN /\ header_columns' = header
          /\ ncols' = sniffed.ncols
          /\ IF ~tts_schema.isNone /\ Len(tts_schema.val) # sniffed.ncols
             THEN Raise("SchemaColumnMismatch") /\ UNCHANGED <<reader, renames, stats>>
             ELSE IF ~tts_schema.isNone /\ ~header.isNone
                     /\ ~HeaderMatches(header.val, tts_schema.val)
             THEN Raise("SchemaColumnMismatch") /\ UNCHANGED <<reader, renames, stats>>
             ELSE /\ reader' =
                       IF ~tts_schema.isNone
                       THEN Reader([i \in 1..Len(tts_schema.val) |-> tts_schema.val[i].AttributeName],
                                   Some([i \in 1..Len(tts_schema.val) |-> tts_schema.val[i].AttributeType]),
                                   content)
                       ELSE IF header.isNone
                       THEN Reader(SubSeq(IntegerLabels, 1, sniffed.ncols), NoneV, content)
                       ELSE Reader(header.val, NoneV, Tail(content))
                  /\ renames' = IF ~tts_schema.isNone \/ ~header.isNone THEN NoneV ELSE Some(<<>>)
                  /\ stats' = EmptyStats
                  /\ pc' = "chunk"
                  /\ phase' = IF ixfile = 0 THEN "ResolvingSchema" ELSE "Streaming"
                  /\ UNCHANGED error

OpenFile ==
  /\ pc = "open"
  /\ ixfile < Len(tts_filenames)
  /\ \E content \in FileContents : OpenFileWith(content)
  /\ UNCHANGED <<argVars, tts_schema, is_tts_schema_explicit, partition, tts_filenames, ixfile,
                 output, all_records, all_combos, snVars, vaVars, agVars, saVars, inVars, lhVars, wdVars>>

\* the file loop is over: diagnose returns
Return ==
  /\ pc = "open"
  /\ ixfile = Len(tts_filenames)
  /\ pc' = "done"
  /\ phase' = "Done"
  /\ UNCHANGED <<argVars, tts_schema, is_tts_schema_explicit, error, partition, tts_filenames,
                 ixfile, header_columns, ncols, reader, renames, stats, output, all_records,
                 all_combos, snVars, vaVars, agVars, saVars, inVars, lhVars, wdVars>>

\* tts_chunk.rename(columns=renames): the labels of the columns afterwards
RenamedCols(cols, mapping) ==
  [c \in 1..Len(cols) |-> IF cols[c] \in DOMAIN mapping THEN mapping[cols[c]] ELSE cols[c]]

\* the renames dict the inference leaves: the labels it replaced by a name
RenamesOf(cols, attrs) ==
  [l \in {cols[c] : c \in {c \in 1..Len(cols) : attrs[c].AttributeName # cols[c]}} |->
     attrs[IndexOf(l, cols)].AttributeName]

\* every cell of the rows converts to the declared type of its column
RowsConvertible(rows, dtype) ==
  \A i \in 1..Len(rows) : \A c \in 1..Len(rows[i]) :
    c <= Len(dtype) => Convertible(rows[i][c], dtype[c])

\* the tuples of dimension values of the rows of a chunk
DimensionTuples(chunk, dimension_fields) ==
  [i \in 1..Len(chunk.rows) |->
     [d \in 1..Len(dimension_fields) |->
        chunk.rows[i][IndexOf(dimension_fields[d], chunk.cols)]]]

\* exact count per tuple after more tuples were seen
CountTuples(counts, tuples) ==
  [k \in (DOMAIN counts) \cup Range(tuples) |->
     (IF k \in DOMAIN counts THEN counts[k] ELSE 0) + CountOf(k, tuples)]

\* "Update statistics from this chunk", with the field partition `part`
Aggregate(chunk, part) ==
  IF part.isNone THEN Raise("NameError") /\ UNCHANGED <<stats, all_records, all_combos>>
  ELSE IF part.val.dimension_fields = <<>>
  THEN Raise("ValueError") /\ UNCHANGED <<stats, all_records, all_combos>>
  ELSE /\ stats' = UpdateStats(stats, chunk, part.val.timestamp_field, part.val.dimension_fields)
       /\ all_records' = all_records + Len(chunk.rows)
       /\ all_combos' = CountTuples(all_combos, DimensionTuples(chunk, part.val.dimension_fields))
       /\ pc' = "chunk"
       /\ phase' = "Streaming"
       /\ UNCHANGED error

\* a chunk loop that infers the schema again on the first chunk of every
\* file when no schema was given
SchemaUnresolved_PerFile ==
  tts_schema.isNone \/ (~is_tts_schema_explicit /\ stats = EmptyStats)

\* `if tts_schema is None`
SchemaUnresolved == tts_schema.isNone

\* the body of the chunk loop for the chunk read as `raw_chunk`: the schema
\* is inferred and validated if there is none yet, the columns are renamed
\* and the statistics updated
ChunkBody(raw_chunk) ==
  IF SchemaUnresolved
  THEN LET resolved == ResolveSchema(raw_chunk, header_columns, domain)
       IN IF resolved.err # "ok"
          THEN /\ Raise(resolved.err)
               /\ UNCHANGED <<tts_schema, partition, renames, stats, all_records, all_combos>>
          ELSE LET mapping == IF renames.isNone THEN NoneV
                              ELSE Some(RenamesOf(raw_chunk.cols, resolved.attrs))
                   cols == IF mapping.isNone THEN raw_chunk.cols
                           ELSE RenamedCols(raw_chunk.cols, mapping.val)
               IN /\ tts_schema' = Some(resolved.attrs)
                  /\ partition' = resolved.part
                  /\ renames' = mapping
                  /\ Aggregate(Chunk(cols, raw_chunk.rows), resolved.part)
  ELSE /\ UNCHANGED <<tts_schema, partition, renames>>
       /\ Aggregate(Chunk(IF renames.isNone THEN raw_chunk.cols
                          ELSE RenamedCols(raw_chunk.cols, renames.val),
                          raw_chunk.rows),
                    partition)

\* one turn of `for ixchunk, tts_chunk in enumerate(tts_chunker)`
ProcessChunk ==
  /\ pc = "chunk"
  /\ reader.rows # <<>>
  /\ LET n == Min2(chunksize, Len(reader.rows))
         rows == SubSeq(reader.rows, 1, n)
     IN /\ reader' = [reader EXCEPT !.rows = SubSeq(reader.rows, n + 1, Len(reader.rows))]
        /\ IF ~reader.dtype.isNone /\ ~RowsConvertible(rows, reader.dtype.val)
           THEN /\ Raise("ParseError")
                /\ UNCHANGED <<tts_schema, partition, renames, stats, all_records, all_combos>>
           ELSE ChunkBody(Chunk(reader.cols, rows))
  /\ UNCHANGED <<argVars, is_tts_schema_explicit, tts_filenames, ixfile, header_columns,
                 ncols, output, snVars, vaVars, agVars, saVars, inVars, lhVars, wdVars>>

\* "Top value counts" of every dimension field of the tracking variables
ValueTables(st) ==
  [fname \in DOMAIN st.unique_dimension_vals |->
     add_pct_to_value_counts(st.unique_dimension_vals[fname], TopN)]

\* "Top items"
ComboTable(st) == add_pct_to_value_counts(st.unique_dimension_combos.val, TopN)

\* what diagnose prints after the chunks of a file
ReportOf(filename, st) ==
  [file |-> filename, stats |-> st,
   value_tables |-> ValueTables(st), combo_table |-> ComboTable(st)]

\* the chunks of the file are exhausted: the report is printed and the file
\* loop goes on
Report ==
  /\ pc = "chunk"
  /\ reader.rows = <<>>
  /\ IF stats.unique_dimension_combos.isNone
     THEN Raise("TypeError") /\ UNCHANGED <<output, ixfile>>
     ELSE /\ output' = Append(output, ReportOf(tts_filenames[ixfile + 1], stats))
          /\ ixfile' = ixfile + 1
          /\ pc' = "open"
          /\ phase' = "Reporting"
          /\ UNCHANGED error
  /\ UNCHANGED <<argVars, tts_schema, is_tts_schema_explicit, partition, tts_filenames,
                 header_columns, ncols, reader, renames, stats, all_records, all_combos,
                 snVars, vaVars, agVars, saVars, inVars, lhVars, wdVars>>

Next ==
  \/ Start
  \/ ResolveInputs
  \/ OpenFile
  \/ ProcessChunk
  \/ Report
  \/ Return

Spec == Init /\ [][Next]_vars

(***************************************************************************)
(* Claims about the aggregator, the sniffer and the validator.             *)
(***************************************************************************)
\* two Series hold the same counts, whatever the order of their index
SameSeries(a, b) == AsMap(a) = AsMap(b)

\* two sets of tracking variables hold the same aggregation state
SameStats(s, t) ==
  /\ s.global_tts_start = t.global_tts_start
  /\ s.global_tts_end = t.global_tts_end
  /\ s.total_records = t.total_records
  /\ s.total_records_nonulls = t.total_records_nonulls
  /\ s.num_nulls_by_field = t.num_nulls_by_field
  /\ DOMAIN s.unique_dimension_vals = DOMAIN t.unique_dimension_vals
  /\ \A f \in DOMAIN s.unique_dimension_vals :
       SameSeries(s.unique_dimension_vals[f], t.unique_dimension_vals[f])
  /\ s.unique_dimension_combos.isNone = t.unique_dimension_combos.isNone
  /\ SameSeries(s.unique_dimension_combos.val, t.unique_dimension_combos.val)

\* the file of the chunk loop read as one single chunk
AgSingleChunk == UpdateStats(EmptyStats, Chunk(AgCols, ag_rows), AgTimestampField, AgDimensionFields)

AgStreamed == ag_pos = Len(ag_rows) /\ Len(ag_rows) >= 1

\* C2: whatever the chunk size, the aggregation state after the last chunk
\* of a file equals the state obtained from the file as one single chunk
\* (totals, null counts, value frequencies, combination counts, time span).
C2_ChunkingIndependent == AgStreamed => SameStats(ag_stats, AgSingleChunk)

\* C3: sniff returns column_count = number of cells of the first row;
\* header is None when every cell is a type keyword, and the list of the
\* first row's cells otherwise.
C3_SniffHeader ==
  ~sn_result.isNone =>
    /\ sn_result.val.ncols = Len(sn_row1)
    /\ (\A i \in 1..Len(sn_row1) : sn_row1[i] \in TypeTags) => sn_result.val.header = NoneV
    /\ ~(\A i \in 1..Len(sn_row1) : sn_row1[i] \in TypeTags) => sn_result.val.header = Some(sn_row1)

VaCalled == ~va_result.isNone
VaRequired == DOMAINS[va_domain].required_fields
VaOptional == DOMAINS[va_domain].optional_fields
VaNames == [i \in 1..Len(va_schema) |-> va_schema[i].AttributeName]

\* the schema has an attribute of that name and type
VaContains(name, type) == \E i \in 1..Len(va_schema) : va_schema[i] = Attr(name, type)
\* the schema has an attribute of that name and of another type
VaContainsOtherType(name, type) ==
  \E i \in 1..Len(va_schema) :
    va_schema[i].AttributeName = name /\ va_schema[i].AttributeType # type
\* the schema has an attribute of that name
VaHas(name) == \E i \in 1..Len(va_schema) : va_schema[i].AttributeName = name
\* the type of the first attribute of the schema with that name
VaFirstType(name) == va_schema[IndexOf(name, VaNames)].AttributeType

\* C4 as stated: every schema that contains each required field of the
\* domain with the declared type validates, and the returned required list
\* is the domain's required field names in declared order.
C4_ValidSchemaAccepted ==
  (VaCalled /\ \A i \in 1..Len(VaRequired) :
                 VaContains(VaRequired[i].key, VaRequired[i].attr.AttributeType))
  => (va_result.val.err = "ok" /\ va_result.val.required = Keys(VaRequired))

\* the first attribute named after each required field has the declared type
VaFirstMatchValid ==
  \A i \in 1..Len(VaRequired) :
    VaHas(VaRequired[i].key) /\ VaFirstType(VaRequired[i].key) = VaRequired[i].attr.AttributeType

\* C4 amended: every schema in which the first attribute named after each
\* required field of the domain has the declared type validates, and the
\* returned required list is the domain's required field names in order.
C4_FirstMatchAccepted ==
  (VaCalled /\ VaFirstMatchValid)
  => (va_result.val.err = "ok" /\ va_result.val.required = Keys(VaRequired))

\* a valid schema with attributes beyond the required ones has been validated
C4_Witness ==
  /\ VaCalled /\ VaFirstMatchValid
  /\ va_domain = "WEB_TRAFFIC"
  /\ Len(va_schema) > Len(VaRequired)
  /\ va_result.val.err = "ok"

VaNoClassification ==
  va_result.val.required = <<>> /\ va_result.val.optional = <<>> /\ va_result.val.custom = <<>>

\* C5 as stated: a schema lacking a required field fails with
\* MissingRequiredField, whatever the types of the other fields; a schema
\* with all required fields, one of them with another type, fails with
\* RequiredFieldTypeMismatch; neither returns a classification.
C5_MissingRequiredFails ==
  VaCalled =>
    /\ (\E i \in 1..Len(VaRequired) : ~VaHas(VaRequired[i].key))
         => (va_result.val.err = "MissingRequiredField" /\ VaNoClassification)
    /\ ((\A i \in 1..Len(VaRequired) : VaHas(VaRequired[i].key))
        /\ (\E i \in 1..Len(VaRequired) :
              VaContainsOtherType(VaRequired[i].key, VaRequired[i].attr.AttributeType)))
         => (va_result.val.err = "RequiredFieldTypeMismatch" /\ VaNoClassification)

\* the i-th required field is absent / its first attribute has another type
VaMissing(i) == ~VaHas(VaRequired[i].key)
VaMistyped(i) ==
  VaHas(VaRequired[i].key) /\ VaFirstType(VaRequired[i].key) # VaRequired[i].attr.AttributeType
VaBad(i) == VaMissing(i) \/ VaMistyped(i)

\* C5 amended: the required fields are checked in declared order and the
\* first one that is absent, or whose first attribute has another type,
\* decides: MissingRequiredField if it is absent, RequiredFieldTypeMismatch
\* otherwise; a schema lacking a required field fails with one of the two,
\* and no classification is returned.
C5_FirstBadFieldDecides ==
  VaCalled =>
    \A i \in 1..Len(VaRequired) :
      (VaBad(i) /\ \A j \in 1..(i-1) : ~VaBad(j))
      => /\ va_result.val.err =
              (IF VaMissing(i) THEN "MissingRequiredField" ELSE "RequiredFieldTypeMismatch")
         /\ VaNoClassification

\* a schema lacking a required field, an earlier one mistyped, has been validated
C5_Witness ==
  /\ VaCalled
  /\ \E i \in 1..Len(VaRequired) : VaMissing(i) /\ \E j \in 1..(i-1) : VaMistyped(j)
  /\ va_result.val.err = "RequiredFieldTypeMismatch"

VaDisjoint(a, b) == Range(a) \cap Range(b) = {}
VaListsDisjoint ==
  /\ VaDisjoint(va_result.val.required, va_result.val.optional)
  /\ VaDisjoint(va_result.val.required, va_result.val.custom)
  /\ VaDisjoint(va_result.val.optional, va_result.val.custom)
\* custom lists schema names in the schema's column order
VaCustomInSchemaOrder ==
  va_result.val.custom = SelectSeq(VaNames, LAMBDA n : n \in Range(va_result.val.custom))

\* C6 as stated: validation does not fail on an optional field the schema
\* contains with another type, the field is left out of optional_used and
\* is in custom; an optional field present with the template's type is in
\* optional_used and not in custom; the three lists are pairwise disjoint
\* and custom keeps the schema's column order.
C6_OptionalClassified ==
  (VaCalled /\ VaFirstMatchValid) =>
    /\ va_result.val.err = "ok"
    /\ \A i \in 1..Len(VaOptional) :
         LET f == VaOptional[i].key
             t == VaOptional[i].attr.AttributeType
         IN /\ VaContainsOtherType(f, t)
                 => (~InSeq(f, va_result.val.optional) /\ InSeq(f, va_result.val.custom))
            /\ VaContains(f, t)
                 => (InSeq(f, va_result.val.optional) /\ ~InSeq(f, va_result.val.custom))
    /\ VaListsDisjoint
    /\ VaCustomInSchemaOrder

\* C6 amended: the first attribute named after an optional field decides:
\* with another type than the template's, validation does not fail, the
\* field is left out of optional_used and is in custom; with the template's
\* type the field is in optional_used and not in custom; the three lists
\* are pairwise disjoint and custom keeps the schema's column order.
C6_FirstOptionalDecides ==
  (VaCalled /\ VaFirstMatchValid) =>
    /\ va_result.val.err = "ok"
    /\ \A i \in 1..Len(VaOptional) :
         LET f == VaOptional[i].key
             t == VaOptional[i].attr.AttributeType
         IN VaHas(f) =>
              IF VaFirstType(f) # t
              THEN ~InSeq(f, va_result.val.optional) /\ InSeq(f, va_result.val.custom)
              ELSE InSeq(f, va_result.val.optional) /\ ~InSeq(f, va_result.val.custom)
    /\ VaListsDisjoint
    /\ VaCustomInSchemaOrder

\* a schema with the optional field in another type has been validated
C6_Witness ==
  /\ VaCalled /\ VaFirstMatchValid
  /\ \E i \in 1..Len(VaOptional) :
       /\ VaHas(VaOptional[i].key)
       /\ VaFirstType(VaOptional[i].key) # VaOptional[i].attr.AttributeType
       /\ InSeq(VaOptional[i].key, va_result.val.custom)
  /\ va_result.val.warnings # <<>>

(***************************************************************************)
(* Claims about the diagnose run.                                          *)
(***************************************************************************)
\* sum of the counts of a Series
RECURSIVE SeriesSum(_)
SeriesSum(series) ==
  IF series = <<>> THEN 0 ELSE AddValues(Head(series).v, SeriesSum(Tail(series)))

\* C1: at the end of a run over several files, the joint
\* dimension-combination table has exactly one entry per distinct tuple of
\* dimension values seen in any file of the run, and its counts sum to the
\* number of rows of all files.
C1_CombosCoverAllFiles ==
  (pc = "done" /\ Len(output) >= 2) =>
    /\ Range(Labels(stats.unique_dimension_combos.val)) = DOMAIN all_combos
    /\ SeriesSum(stats.unique_dimension_combos.val) = all_records

\* the exceptions raised before the path argument is looked at
ArgumentErrors == {"UnknownDomain", "MissingRequiredField", "RequiredFieldTypeMismatch"}

\* C7: a run on a directory that holds no file ends in the failure
\* NoInputFiles, and a run on a path that is neither file nor directory,
\* its other arguments being accepted, ends in the failure InvalidPath.
C7_EmptyDirectoryFails ==
  /\ (pc \in {"done", "failed"} /\ tts_path.kind = "dir" /\ tts_path.listing = {}
      /\ error \notin ArgumentErrors)
       => (pc = "failed" /\ error = "NoInputFiles")
  /\ (pc \in {"done", "failed"} /\ tts_path.kind = "none" /\ error \notin ArgumentErrors)
       => (pc = "failed" /\ error = "InvalidPath")

\* the names are in sorted order
NamesSorted(names) == \A i \in 1..(Len(names) - 1) : NameLess(names[i], names[i + 1])

\* C8: when the path is a directory, the file being sniffed and streamed
\* has a name ending in .csv (whatever the case of the letters), and the
\* files are taken in sorted order.
C8_OnlyCsvStreamed ==
  (tts_path.kind = "dir" /\ pc = "chunk") =>
    /\ IsCsvName(tts_filenames[ixfile + 1])
    /\ NamesSorted(tts_filenames)

\* C9: a run that ends in a failure has emitted no report before.
C9_NoPartialReport == pc = "failed" => output = <<>>

PhaseOrder == <<"ResolvingInputs", "ResolvingSchema", "Streaming", "Reporting", "Done", "Failed">>
PhaseRank(ph) == IndexOf(ph, PhaseOrder)

\* C10: no step of a run goes back to an earlier phase of ResolvingInputs,
\* ResolvingSchema, Streaming, Reporting, Done (so the path is resolved
\* before the schema is validated and every chunk is streamed before the
\* report), and the report is emitted exactly once.
C10_PhaseOrder ==
  [][/\ PhaseRank(phase') >= PhaseRank(phase)
     /\ Len(output') <= 1
     /\ pc' = "done" => Len(output') = 1]_vars

(***************************************************************************)
(* Claims about the resolution of the schema in a diagnose run.            *)
(***************************************************************************)
\* the run is at the first chunk of its first file
FirstChunkOfRun == pc = "chunk" /\ ixfile = 0 /\ stats = EmptyStats /\ all_records = 0

\* the failures the inference, and the validation of what it inferred, end in
InferenceErrors ==
  {"SchemaIndeterminate", "AmbiguousColumnMapping", "MissingRequiredField",
   "RequiredFieldTypeMismatch", "KeyError"}

\* C11: a step infers a schema (sets the schema, or fails in the inference
\* or in the validation of its result) only when no schema was supplied,
\* none is resolved yet, and the step is the first chunk of the first file:
\* so inference runs at most once; and once the schema is resolved, no step
\* of a later chunk or file changes the schema or the partition of its
\* fields into timestamp, target and dimension fields.
C11_InferenceOnce ==
  [][/\ (tts_schema' # tts_schema \/ (pc = "chunk" /\ pc' = "failed" /\ error' \in InferenceErrors))
          => (tts_schema.isNone /\ ~is_tts_schema_explicit /\ FirstChunkOfRun)
     /\ tts_schema' # tts_schema => (~tts_schema'.isNone /\ ~partition'.isNone)
     /\ (~tts_schema.isNone /\ pc # "start")
          => (tts_schema' = tts_schema /\ partition' = partition)]_vars

\* a chunk of a later file has been aggregated under an inferred schema
C11_Witness ==
  /\ ~is_tts_schema_explicit /\ ~tts_schema.isNone
  /\ pc = "chunk" /\ ixfile >= 1
  /\ stats.total_records >= 1
  /\ all_records > stats.total_records

\* the failures that come from the path and the files of a run
FileErrors == {"InvalidPath", "StopIteration", "SchemaColumnMismatch", "ParseError"}

\* C12: a run given an explicit schema and no domain does not fail for want
\* of the domain: it fails only on its path or its files, and when it ends
\* after streaming its files, the timestamp, target and dimension fields are
\* resolved and a report has been emitted.
C12_SchemaWithoutDomain ==
  (is_tts_schema_explicit /\ domain = NoDomain) =>
    /\ pc = "failed" => error \in FileErrors
    /\ (pc = "done" /\ tts_filenames # <<>>) => (~partition.isNone /\ output # <<>>)

InCalled == ~in_result.isNone
\* the inference names the columns from the domain
InHeaderless == in_header.isNone /\ in_domain \in DomainNames
\* the types detected on the columns of the chunk
InTypes == [c \in 1..Len(in_row) |-> SchemaType(<<in_row[c]>>)]
\* the fields of the domain declared with the type
InRequiredOfType(type) == FieldsOfType(DOMAINS[in_domain].required_fields, type)
InOptionalOfType(type) == FieldsOfType(DOMAINS[in_domain].optional_fields, type)
InNames == [c \in 1..Len(in_result.val.attrs) |-> in_result.val.attrs[c].AttributeName]

\* C14: in headerless inference with a domain, a chunk with a column whose
\* detected type is the type of no required and of no optional field of the
\* domain makes the inference fail with AmbiguousColumnMapping, and the
\* schema is not given to the validator.
C14_ZeroCandidatesFails ==
  (InCalled /\ InHeaderless
   /\ \E c \in 1..Len(in_row) :
        InRequiredOfType(InTypes[c]) = <<>> /\ InOptionalOfType(InTypes[c]) = <<>>)
  => (in_result.val.err = "AmbiguousColumnMapping" /\ ~in_result.val.validated)

\* C15: in headerless inference with a domain, a chunk with two or more
\* columns of the same detected type makes the inference fail with
\* AmbiguousColumnMapping: the schema is not validated and no partition of
\* fields is produced.
C15_DuplicateTypeFails ==
  (InCalled /\ InHeaderless
   /\ \E c1, c2 \in 1..Len(in_row) : c1 # c2 /\ InTypes[c1] = InTypes[c2])
  => /\ in_result.val.err = "AmbiguousColumnMapping"
     /\ ~in_result.val.validated
     /\ in_result.val.part.isNone

\* the inference has failed for domain RETAIL on a chunk with two float
\* columns next to a string and a timestamp column
C15_Witness ==
  /\ InCalled /\ InHeaderless /\ in_domain = "RETAIL"
  /\ CountOf("float", InTypes) = 2
  /\ {"string", "timestamp"} \subseteq Range(InTypes)
  /\ in_result.val.err = "AmbiguousColumnMapping"

\* every detected type is detected on one column only
InTypesDistinct == \A c1, c2 \in 1..Len(in_row) : InTypes[c1] = InTypes[c2] => c1 = c2

\* C16: in headerless inference with a domain, when every detected type is
\* detected on one column only, each column whose type is the type of
\* exactly one required field of the domain is named after that field,
\* wherever the column stands, and the dimension fields of a validated
\* schema are its columns other than the timestamp and the target field, in
\* column order; for domain RETAIL and three columns of the types string,
\* timestamp and float the schema is item_id, timestamp, demand by type,
\* validation succeeds and dimension_fields = [item_id].
C16_OneToOneNaming ==
  (InCalled /\ InHeaderless /\ InTypesDistinct) =>
    /\ \A c \in 1..Len(in_row) :
         Len(InRequiredOfType(InTypes[c])) = 1 => InNames[c] = InRequiredOfType(InTypes[c])[1]
    /\ in_result.val.err = "ok" =>
         in_result.val.part.val.dimension_fields
           = SelectSeq(InNames, LAMBDA n : n \notin {in_result.val.part.val.timestamp_field,
                                                     in_result.val.part.val.target_field})
    /\ (in_domain = "RETAIL" /\ Len(in_row) = 3
        /\ Range(InTypes) = {"string", "timestamp", "float"})
         => /\ in_result.val.err = "ok"
            /\ \A c \in 1..3 :
                 InNames[c] = (CASE InTypes[c] = "string" -> "item_id"
                                 [] InTypes[c] = "timestamp" -> "timestamp"
                                 [] InTypes[c] = "float" -> "demand")
            /\ in_result.val.part.val.timestamp_field = "timestamp"
            /\ in_result.val.part.val.target_field = "demand"
            /\ in_result.val.part.val.dimension_fields = <<"item_id">>

\* a schema has been inferred for domain RETAIL from the columns float,
\* timestamp, string, in that order
C16_Witness ==
  /\ InCalled /\ InHeaderless /\ in_domain = "RETAIL"
  /\ InTypes = <<"float", "timestamp", "string">>
  /\ InNames = <<"demand", "timestamp", "item_id">>
  /\ in_result.val.err = "ok"
  /\ in_result.val.part.val.dimension_fields = <<"item_id">>

(***************************************************************************)
(* Claims about the files of a run and its schema.                         *)
(***************************************************************************)
\* a file of n columns, with the header the sniffer returned for it,
\* disagrees with the schema: another number of columns, or another name
\* than the schema's at some column of the header
FileMismatch(n, header, attrs) ==
  IF n # Len(attrs) THEN TRUE
  ELSE /\ ~header.isNone
       /\ \E ixcol \in 1..Len(header.val) : header.val[ixcol] # attrs[ixcol].AttributeName

WholeNameMatches(name) ==
  /\ name # <<>>
  /\ name[1] \in Letters
  /\ \A i \in 2..Len(name) : name[i] \in Letters \cup Digits \cup {"_"}

\* C18: SchemaAttribute(name, type) succeeds if and only if the whole name
\* matches [A-Za-z][A-Za-z0-9_]* and the type is one of string, integer,
\* float, timestamp.
C18_ConstructIffValid ==
  ~sa_result.isNone =>
    (sa_result.val.err = "ok" <=> (WholeNameMatches(sa_name) /\ sa_type \in TypeTags))

(***************************************************************************)
(* Claims about the attributes of an explicit schema.                      *)
(***************************************************************************)
\* the attribute names of the schemas given to diagnose that do not match
\* [A-Za-z][A-Za-z0-9_]* as a whole
InvalidNames == {"store-id"}

\* the schema given to the run holds an attribute with an invalid name or
\* with a type outside string, integer, float, timestamp
HasInvalidAttribute ==
  /\ is_tts_schema_explicit
  /\ \E i \in 1..Len(tts_schema.val) :
       \/ tts_schema.val[i].AttributeName \in InvalidNames
       \/ tts_schema.val[i].AttributeType \notin TypeTags

\* C19: a run on a file, for a domain of the catalog, given an explicit
\* schema with an invalid attribute streams no row, and when it has ended
\* it has failed with InvalidAttributeName or InvalidAttributeType.
C19_InvalidAttributeRejected ==
  (HasInvalidAttribute /\ domain \in DomainNames /\ tts_path.kind = "file") =>
    /\ all_records = 0
    /\ pc \in {"done", "failed"}
         => (pc = "failed" /\ error \in {"InvalidAttributeName", "InvalidAttributeType"})

(***************************************************************************)
(* Claims about the tables of the report.                                  *)
(***************************************************************************)
\* the values of the dimension field in the rows of the file, as labels
AgValues == [i \in 1..Len(ag_rows) |-> <<ag_rows[i][1]>>]
\* the tuples of dimension values of the rows that have them all
AgCombos == SelectSeq(AgValues, LAMBDA t : ~InSeq(NaNCell, t))

\* label l1 comes before label l2 in a table of the values: it has the
\* higher count, or the same count and was seen first
RanksBefore(l1, l2, values) ==
  \/ CountOf(l1, values) > CountOf(l2, values)
  \/ CountOf(l1, values) = CountOf(l2, values) /\ IndexOf(l1, values) < IndexOf(l2, values)

\* the table lists the TopN most frequent of the values, each with its
\* count and its share of all values, highest count first, ties in
\* first-seen order
IsTopTable(table, values) ==
  /\ Len(table) = Min2(TopN, Cardinality(Range(values)))
  /\ \A i \in 1..Len(table) :
       /\ table[i].k \in Range(values)
       /\ table[i].Records = CountOf(table[i].k, values)
       /\ table[i].Percentage = Percentage(CountOf(table[i].k, values), Len(values))
  /\ \A i, j \in 1..Len(table) : i < j => RanksBefore(table[i].k, table[j].k, values)
  /\ \A l \in Range(values) \ {table[i].k : i \in 1..Len(table)} :
       \A i \in 1..Len(table) : RanksBefore(table[i].k, l, values)

\* C20: after the last chunk of a file, whatever the chunk size, the value
\* table of the dimension field and the table of the dimension combinations
\* list the TopN entries with the highest counts, highest first, ties in
\* first-seen order, each with its count and its percentage of the total.
C20_TopTables ==
  AgStreamed =>
    /\ IsTopTable(ValueTables(ag_stats)["item_id"], AgValues)
    /\ IsTopTable(ComboTable(ag_stats), AgCombos)

(***************************************************************************)
(* The domain argument of diagnose over every name of interest.            *)
(***************************************************************************)
\* the names a caller may pass as domain: the keys of the catalog, the
\* names of the domains of the forecasting service, and names of neither
DomainArgs ==
  DomainNames \cup {"EC2_CAPACITY", "BOGUS", "retail", "", NoDomain}

StartInit ==
  /\ tts_path \in DgPaths
  /\ domain \in DomainArgs
  /\ chunksize \in 1..MaxChunk
  /\ tts_schema \in DgSchemas
  /\ is_tts_schema_explicit = FALSE
  /\ pc = "start" /\ error = ""
  /\ partition = NoneV
  /\ tts_filenames = <<>> /\ ixfile = 0
  /\ header_columns = NoneV /\ ncols = 0 /\ reader = NoReader /\ renames = NoneV
  /\ stats = EmptyStats
  /\ output = <<>>
  /\ phase = "ResolvingInputs"
  /\ all_records = 0 /\ all_combos = <<>>
  /\ SnIdle /\ VaIdle /\ AgIdle /\ SaIdle /\ InIdle /\ LhIdle /\ WdIdle

SpecStart == StartInit /\ [][Start]_vars

(***************************************************************************)
(* The custom resource of the Studio domain: lambda_handler.               *)
(***************************************************************************)
MaxVpcs == 2
MaxGroups == 2

HandlerInit ==
  /\ event \in {Some([RequestType |-> t, VPC |-> v, SubnetIds |-> n, SecurityGroupIds |-> g]) :
                  t \in {"Create", "Update", "Delete", "Replace"}, v \in BOOLEAN,
                  n \in BOOLEAN, g \in BOOLEAN}
  /\ lh_pc = "start" /\ response = "" /\ cfn_responses = <<>> /\ api_calls = {}
  /\ api_fault \in {"none", "describe_vpcs", "describe_subnets", "create_domain",
                    "describe_domain", "describe_security_groups", "delete_domain",
                    "update_domain"}
  /\ sm_status \in {"Absent", "InService"}
  /\ sm_fate \in {"completes", "fails"}
  /\ SnIdle /\ VaIdle /\ AgIdle /\ SaIdle /\ InIdle /\ DgIdle /\ WdIdle

\* cfnresponse.send with the given status, as the last statement of a handler
Send(status) ==
  /\ cfn_responses' = Append(cfn_responses, status)
  /\ lh_pc' = "returned"

\* the except block of lambda_handler: FAILED is sent and the exception
\* raised again
Except ==
  /\ cfn_responses' = Append(cfn_responses, "FAILED")
  /\ lh_pc' = "raised"

\* the dispatch on RequestType
lambda_handler ==
  /\ lh_pc = "start"
  /\ IF event.val.RequestType = "Create" THEN lh_pc' = "create" /\ UNCHANGED cfn_responses
     ELSE IF event.val.RequestType = "Update"
     THEN lh_pc' = "update" /\ UNCHANGED cfn_responses
     ELSE IF event.val.RequestType = "Delete"
     THEN lh_pc' = "delete" /\ UNCHANGED cfn_responses
     ELSE Send("FAILED")
  /\ UNCHANGED <<event, response, api_calls, api_fault, sm_status, sm_fate,
                 snVars, vaVars, agVars, saVars, inVars, dgVars, wdVars>>

\* create_studio_domain up to the call of create_domain: the VPC and the
\* subnets are looked up when the configuration has none
create_studio_domain ==
  /\ lh_pc = "create"
  /\ \E available_vpcs \in 0..MaxVpcs, default_vpcs \in 0..MaxVpcs :
       /\ default_vpcs <= available_vpcs
       /\ LET no_vpc == ~event.val.VPC
              no_subnets == ~event.val.SubnetIds
              vpc_raises ==
                no_vpc /\ \/ api_fault = "describe_vpcs"
                          \/ available_vpcs <= 0
                          \/ default_vpcs > 1
                          \/ default_vpcs = 0 /\ available_vpcs # 1
              subnets_raises == no_subnets /\ api_fault = "describe_subnets"
              create_raises == api_fault = "create_domain" \/ sm_status # "Absent"
              looked_up == (IF no_vpc THEN {"describe_vpcs"} ELSE {})
                             \cup (IF no_subnets /\ ~vpc_raises
                                   THEN {"describe_subnets"} ELSE {})
          IN IF vpc_raises \/ subnets_raises
             THEN /\ Except
                  /\ api_calls' = api_calls \cup looked_up
                  /\ UNCHANGED <<response, sm_status>>
             ELSE /\ api_calls' = api_calls \cup looked_up \cup {"create_domain"}
                  /\ IF create_raises THEN Except /\ UNCHANGED <<response, sm_status>>
                     ELSE /\ sm_status' = "Pending"
                          /\ response' = "DomainArn"
                          /\ lh_pc' = "create_poll"
                          /\ UNCHANGED cfn_responses
  /\ UNCHANGED <<event, api_fault, sm_fate,
                 snVars, vaVars, agVars, saVars, inVars, dgVars, wdVars>>

\* the loop of create_studio_domain: describe_domain until the status is
\* InService, five seconds of sleep between two calls
AwaitInService ==
  /\ \/ /\ lh_pc = "create_poll"
        /\ api_calls' = api_calls \cup {"describe_domain"}
        /\ IF api_fault = "describe_domain" \/ sm_status = "Absent"
           THEN Except /\ UNCHANGED response
           ELSE /\ response' = sm_status
                /\ lh_pc' = IF sm_status = "InService" THEN "create_groups" ELSE "create_sleep"
                /\ UNCHANGED cfn_responses
     \/ /\ lh_pc = "create_sleep"
        /\ lh_pc' = "create_poll"
        /\ UNCHANGED <<response, cfn_responses, api_calls>>
  /\ UNCHANGED <<event, api_fault, sm_status, sm_fate,
                 snVars, vaVars, agVars, saVars, inVars, dgVars, wdVars>>

\* the end of create_studio_domain, where the security groups are looked up
\* when the configuration has none, and the response of handle_create
handle_create ==
  /\ lh_pc = "create_groups"
  /\ \E available_security_groups \in 0..MaxGroups, nfs_security_groups \in 0..MaxGroups,
        public_security_groups \in 0..MaxGroups :
       /\ nfs_security_groups <= available_security_groups
       /\ public_security_groups <= available_security_groups
       /\ IF event.val.SecurityGroupIds
          THEN Send("SUCCESS") /\ UNCHANGED api_calls
          ELSE /\ api_calls' = api_calls \cup {"describe_security_groups"}
               /\ IF api_fault = "describe_security_groups" THEN Except
                  ELSE IF \/ nfs_security_groups > 1 /\ nfs_security_groups < 5
                          \/ public_security_groups = 1
                          \/ public_security_groups > 1
                          \/ available_security_groups = 1
                          \/ available_security_groups > 1
                  THEN Send("SUCCESS")
                  ELSE Except
  /\ UNCHANGED <<event, response, api_fault, sm_status, sm_fate,
                 snVars, vaVars, agVars, saVars, inVars, dgVars, wdVars>>

\* handle_delete up to the call of delete_domain: a domain that does not
\* exist is a success, and no deletion is asked for
handle_delete ==
  /\ lh_pc = "delete"
  /\ IF api_fault = "describe_domain"
     THEN /\ Except
          /\ api_calls' = api_calls \cup {"describe_domain"}
          /\ UNCHANGED <<response, sm_status>>
     ELSE IF sm_status = "Absent"
     THEN /\ Send("SUCCESS")
          /\ api_calls' = api_calls \cup {"describe_domain"}
          /\ UNCHANGED <<response, sm_status>>
     ELSE /\ api_calls' = api_calls \cup {"describe_domain", "delete_domain"}
          /\ IF api_fault = "delete_domain" THEN Except /\ UNCHANGED <<response, sm_status>>
             ELSE /\ sm_status' = "Deleting"
                  /\ response' = "deleting"
                  /\ lh_pc' = "delete_poll"
                  /\ UNCHANGED cfn_responses
  /\ UNCHANGED <<event, api_fault, sm_fate,
                 snVars, vaVars, agVars, saVars, inVars, dgVars, wdVars>>

\* the loop of delete_domain: describe_domain until it raises
\* ResourceNotFound, then the response of handle_delete
delete_domain ==
  /\ \/ /\ lh_pc = "delete_poll"
        /\ IF sm_status = "Absent" THEN Send("SUCCESS")
           ELSE lh_pc' = "delete_sleep" /\ UNCHANGED cfn_responses
     \/ /\ lh_pc = "delete_sleep"
        /\ lh_pc' = "delete_poll"
        /\ UNCHANGED cfn_responses
  /\ UNCHANGED <<event, response, api_calls, api_fault, sm_status, sm_fate,
                 snVars, vaVars, agVars, saVars, inVars, dgVars, wdVars>>

\* handle_update up to the call of update_domain
handle_update ==
  /\ lh_pc = "update"
  /\ api_calls' = api_calls \cup {"update_domain"}
  /\ IF api_fault = "update_domain" \/ sm_status = "Absent"
     THEN Except /\ UNCHANGED <<response, sm_status>>
     ELSE /\ sm_status' = "Updating"
          /\ response' = "DomainArn"
          /\ lh_pc' = "update_poll"
          /\ UNCHANGED cfn_responses
  /\ UNCHANGED <<event, api_fault, sm_fate,
                 snVars, vaVars, agVars, saVars, inVars, dgVars, wdVars>>

\* the loop of update_domain: describe_domain until the status is
\* InService, then the response of handle_update
update_domain ==
  /\ \/ /\ lh_pc = "update_poll"
        /\ api_calls' = api_calls \cup {"describe_domain"}
        /\ IF api_fault = "describe_domain" THEN Except /\ UNCHANGED response
           ELSE /\ response' = sm_status
                /\ IF sm_status = "InService" THEN Send("SUCCESS")
                   ELSE lh_pc' = "update_sleep" /\ UNCHANGED cfn_responses
     \/ /\ lh_pc = "update_sleep"
        /\ lh_pc' = "update_poll"
        /\ UNCHANGED <<response, cfn_responses, api_calls>>
  /\ UNCHANGED <<event, api_fault, sm_status, sm_fate,
                 snVars, vaVars, agVars, saVars, inVars, dgVars, wdVars>>

\* SageMaker ends the pending operation on the domain, as describe_domain
\* then reports it
DomainProgress ==
  /\ lh_pc \notin {"idle", "returned", "raised"}
  /\ sm_status \in {"Pending", "Updating", "Deleting"}
  /\ sm_status' = IF sm_fate = "fails"
                  THEN (IF sm_status = "Pending" THEN "Failed"
                        ELSE IF sm_status = "Updating" THEN "Update_Failed"
                        ELSE "Delete_Failed")
                  ELSE (IF sm_status = "Deleting" THEN "Absent" ELSE "InService")
  /\ UNCHANGED <<event, lh_pc, response, cfn_responses, api_calls, api_fault, sm_fate,
                 snVars, vaVars, agVars, saVars, inVars, dgVars, wdVars>>

HandlerNext ==
  \/ lambda_handler
  \/ create_studio_domain
  \/ AwaitInService
  \/ handle_create
  \/ handle_delete
  \/ delete_domain
  \/ handle_update
  \/ update_domain
  \/ DomainProgress

\* the handler runs on, and SageMaker ends what it has begun
SpecHandler ==
  HandlerInit /\ [][HandlerNext]_vars /\ WF_vars(HandlerNext) /\ WF_vars(DomainProgress)

(***************************************************************************)
(* The wait for a deletion: wait_till_delete.                              *)
(***************************************************************************)
MaxTimeout == 4
MaxCheck == 3
\* the calls are counted up to MaxCalls and the elapsed time up to
\* MaxElapsed: a run with a timeout and a positive check_time stays below
\* both
MaxCalls == MaxTimeout + 1
MaxElapsed == MaxTimeout + MaxCheck

\* a callback returns at every call, or raises at its call number `at`: a
\* ClientError with the code ResourceNotFoundException, a ClientError with
\* another code, or an exception of another class
WaitInit ==
  /\ callback \in {Some([raises |-> "never", at |-> 0])}
                    \cup {Some([raises |-> r, at |-> k]) :
                            r \in {"ResourceNotFoundException", "ThrottlingException",
                                   "ConnectionError"},
                            k \in 1..MaxTimeout}
  /\ check_time \in 0..MaxCheck
  /\ timeout \in {NoneV} \cup {Some(t) : t \in 0..MaxTimeout}
  /\ elapsed_time = 0
  /\ wd_pc = "while" /\ wd_calls = 0 /\ wd_last = ""
  /\ SnIdle /\ VaIdle /\ AgIdle /\ SaIdle /\ InIdle /\ DgIdle /\ LhIdle

\* one turn of the loop in two steps: the test of the timeout with the call
\* of the callback, then the sleep
wait_till_delete ==
  /\ \/ /\ wd_pc = "while"
        /\ IF timeout.isNone \/ elapsed_time < timeout.val
           THEN /\ wd_calls' = Min2(wd_calls + 1, MaxCalls)
                /\ IF callback.val.at = wd_calls + 1
                   THEN /\ wd_last' = callback.val.raises
                        /\ wd_pc' = IF callback.val.raises = "ResourceNotFoundException"
                                    THEN "returned"
                                    ELSE IF callback.val.raises = "ThrottlingException"
                                    THEN "ClientError"
                                    ELSE "Exception"
                   ELSE wd_last' = "out" /\ wd_pc' = "sleep"
           ELSE wd_pc' = "TimeoutError" /\ UNCHANGED <<wd_calls, wd_last>>
        /\ UNCHANGED elapsed_time
     \/ /\ wd_pc = "sleep"
        /\ elapsed_time' = Min2(elapsed_time + check_time, MaxElapsed)
        /\ wd_pc' = "while"
        /\ UNCHANGED <<wd_calls, wd_last>>
  /\ UNCHANGED <<callback, check_time, timeout,
                 snVars, vaVars, agVars, saVars, inVars, dgVars, lhVars>>

\* the loop runs on
SpecWait == WaitInit /\ [][wait_till_delete]_vars /\ WF_vars(wait_till_delete)

(***************************************************************************)
(* Claims about the catalog of domains.                                    *)
(***************************************************************************)
\* the seven names the catalog is said to be keyed by
SevenNames ==
  {"RETAIL", "CUSTOM", "INVENTORY_PLANNING", "EC2_CAPACITY", "WORK_FORCE", "WEB_TRAFFIC",
   "METRICS"}

\* C21: the catalog is keyed by exactly the seven names RETAIL, CUSTOM,
\* INVENTORY_PLANNING, EC2_CAPACITY, WORK_FORCE, WEB_TRAFFIC and METRICS:
\* diagnose tests its domain argument against the keys of the catalog, so
\* once it has checked its arguments it has rejected the domain as unknown
\* exactly when the domain is a name other than these seven.
C21_SevenDomains ==
  pc # "start" =>
    ((error = "UnknownDomain") <=> (domain # NoDomain /\ domain \notin SevenNames))

(***************************************************************************)
(* Claims about the custom resource of the Studio domain.                  *)
(***************************************************************************)
HandlerDone == lh_pc \in {"returned", "raised"}

\* a response is sent as the last step of the invocation, and only then
OneResponseAtEnd ==
  /\ Len(cfn_responses) <= 1
  /\ HandlerDone <=> Len(cfn_responses) = 1

\* SUCCESS is sent once the requested operation has completed in SageMaker
SuccessAfterCompletion ==
  cfn_responses = <<"SUCCESS">> =>
    /\ lh_pc = "returned"
    /\ event.val.RequestType \in {"Create", "Update", "Delete"}
    /\ event.val.RequestType = "Create" =>
         "create_domain" \in api_calls /\ sm_status = "InService" /\ response = "InService"
    /\ event.val.RequestType = "Update" =>
         "update_domain" \in api_calls /\ sm_status = "InService" /\ response = "InService"
    /\ event.val.RequestType = "Delete" =>
         /\ sm_status = "Absent"
         /\ "delete_domain" \in api_calls <=> response = "deleting"

\* FAILED is sent for an unsupported RequestType and when the handler raised
FailedWhenRaised ==
  cfn_responses = <<"FAILED">> <=>
    \/ lh_pc = "raised"
    \/ lh_pc = "returned" /\ event.val.RequestType \notin {"Create", "Update", "Delete"}

HandlerSafety == OneResponseAtEnd /\ SuccessAfterCompletion /\ FailedWhenRaised

\* C22: every invocation of lambda_handler eventually sends exactly one
\* response to CloudFormation, whatever the request and whatever SageMaker
\* and EC2 do: the invocation comes to its end having sent one response,
\* never more than one, SUCCESS only once the requested operation has
\* completed (or the domain to delete did not exist, and no deletion was
\* asked for), FAILED for an unsupported RequestType or when the handler
\* raised.
C22_AlwaysOneResponse == []HandlerSafety /\ <>HandlerDone

(***************************************************************************)
(* Claims about the wait for a deletion.                                   *)
(***************************************************************************)
WaitDone == wd_pc \in {"returned", "ClientError", "Exception", "TimeoutError"}

\* ceil(t / c) for c > 0
CeilDiv(t, c) == (t + c - 1) \div c

\* a normal return follows a ResourceNotFoundException of the callback, and
\* a ClientError with another code leaves the function with the call
WaitOutcomes ==
  /\ wd_pc = "returned" => wd_last = "ResourceNotFoundException"
  /\ wd_last = "ThrottlingException" <=> wd_pc = "ClientError"

\* with a timeout and a positive check_time, the callback is called at most
\* ceil(timeout / check_time) times, and that many times before TimeoutError
WaitBound ==
  (~timeout.isNone /\ check_time > 0) =>
    /\ wd_calls <= CeilDiv(timeout.val, check_time)
    /\ wd_pc = "TimeoutError" => wd_calls = CeilDiv(timeout.val, check_time)

\* without a timeout and with a callback that never raises, the function
\* does not come to an end
WaitForever ==
  (timeout.isNone /\ callback.val.raises = "never") => ~WaitDone

\* C23: wait_till_delete returns normally only after the callback raised a
\* ClientError with the code ResourceNotFoundException, a ClientError with
\* another code is raised again at once, without a timeout and with a
\* callback that never raises the function polls for ever, and with a
\* timeout T and a check interval c it always comes to an end, after at
\* most ceil(T/c) calls of the callback when it ends with TimeoutError.
C23_WaitTerminates ==
  /\ [](WaitOutcomes /\ WaitBound /\ WaitForever)
  /\ ~timeout.isNone => <>WaitDone

============================================================================
